---- MODULE Spec2Model ----
(***************************************************************************)
(* Model of the analytics agent: the Lambda-style and HTTP entry points,   *)
(* the LangGraph workflow of langgraph_workflow.py, the AgentCore gateway  *)
(* and memory wrappers and the DynamoDB/Redis conversation memory.         *)
(***************************************************************************)
EXTENDS Integers, Sequences, FiniteSets, TLC

----------------------------------------------------------------------------
(* Python values.  A value is modelled by a string; the tagged strings     *)
(* below stand for the values that are not Python strings.                 *)

NoneVal == "<None>"
IntVal == "<int 7>"
Missing == "<missing>"

Q1 == "analyze sales"
Q2 == "hello"

StrVals == {"", Q1, Q2}

\* the values a key of a JSON body or of a dict event is given
Vals == {"", Q1, NoneVal, IntVal}

IsStr(v) == v \notin {NoneVal, IntVal}

\* bool(v): the empty string and None are falsy
Truthy(v) == v \notin {"", NoneVal}

\* str(v)
Str(v) == IF v = NoneVal THEN "None" ELSE IF v = IntVal THEN "7" ELSE v

Keys == {"inputText", "input", "query", "message", "prompt", "payload", "body"}

\* the modelled events and request bodies carry no key, one key or two keys
KeySets == {{}} \cup { {a, b} : a \in Keys, b \in Keys }

\* a dict over Keys: a total function, Missing where the key is absent
DictsOver(vals) ==
    UNION { { [k \in Keys |-> IF k \in K THEN f[k] ELSE Missing] : f \in [K -> vals] } :
            K \in KeySets }

EmptyDict == [k \in Keys |-> Missing]

\* dict.get(k, default)
Get(d, k, default) == IF d[k] = Missing THEN default ELSE d[k]

\* a or b
Or(a, b) == IF Truthy(a) THEN a ELSE b

\* the or-chain shared by the three lambda_handlers and do_POST
ExtractUserInput(d) ==
    Or(Get(d, "inputText", NoneVal),
    Or(Get(d, "input", NoneVal),
    Or(Get(d, "query", NoneVal),
    Or(Get(d, "message", NoneVal),
    Or(Get(d, "prompt", NoneVal),
    Or(Get(d, "payload", NoneVal),
    Or(Str(Get(d, "body", "")),
       "Hello World")))))))

\* events of a Lambda-style handler: a string, a dict, or a dict that
\* json.dumps refuses (one that also has a key that is no JSON key)
Events ==
    { [kind |-> "str", text |-> s, d |-> EmptyDict] : s \in StrVals } \cup
    { [kind |-> "dict", text |-> "", d |-> d] : d \in DictsOver(Vals) } \cup
    { [kind |-> "dict_odd_key", text |-> "", d |-> d] :
        d \in {EmptyDict, [EmptyDict EXCEPT !["query"] = Q1]} }

\* lambda_handler's extraction of user_input
LambdaUserInput(event) ==
    IF event.kind = "str" THEN event.text ELSE ExtractUserInput(event.d)

----------------------------------------------------------------------------
(* Sessions, users and the bounds of the model *)

Sessions == {"s1"}
Users == {"u1"}

\* the number of requests one behaviour serves
MaxRequests == 2

----------------------------------------------------------------------------
(* context_engineering.py: the keyword analysis and the per-session and    *)
(* per-user bookkeeping of ContextEngineering                              *)

\* _analyze_query_intent: the primary intent the keywords select
PrimaryIntent(q) == IF q = Q1 THEN "sales_analysis" ELSE "general_analysis"

\* _identify_domain_context: the primary domain the keywords select
PrimaryDomain(q) == IF q = Q1 THEN "sales" ELSE "general"

NoContext == [known |-> FALSE, query_count |-> 0, intents |-> <<>>, domains |-> <<>>]

\* a session update that counts the query and tracks no domain
UpdateSessionContextNoDomain(ctxs, session_id, q) ==
    LET old == IF ctxs[session_id].known THEN ctxs[session_id]
               ELSE [known |-> TRUE, query_count |-> 0, intents |-> <<>>, domains |-> <<>>]
    IN [ctxs EXCEPT ![session_id] =
          [known |-> TRUE,
           query_count |-> old.query_count + 1,
           intents |-> Append(old.intents, PrimaryIntent(q)),
           domains |-> old.domains]]

\* _update_session_context
UpdateSessionContext(ctxs, session_id, q) ==
    LET old == IF ctxs[session_id].known THEN ctxs[session_id]
               ELSE [known |-> TRUE, query_count |-> 0, intents |-> <<>>, domains |-> <<>>]
    IN [ctxs EXCEPT ![session_id] =
          [known |-> TRUE,
           query_count |-> old.query_count + 1,
           intents |-> Append(old.intents, PrimaryIntent(q)),
           domains |-> Append(old.domains, PrimaryDomain(q))]]

\* _update_user_context
UpdateUserContext(profiles, user_id, q) ==
    LET old == IF profiles[user_id].known THEN profiles[user_id]
               ELSE [known |-> TRUE, query_count |-> 0, intents |-> <<>>, domains |-> <<>>]
    IN [profiles EXCEPT ![user_id] =
          [known |-> TRUE,
           query_count |-> old.query_count + 1,
           intents |-> Append(old.intents, PrimaryIntent(q)),
           domains |-> Append(old.domains, PrimaryDomain(q))]]

\* analyze_query_context: slicing or lower-casing a query that is no string
\* raises inside its try block, and the fallback context is returned with
\* no bookkeeping done
ContextAnalysisFallsBack(q) == ~IsStr(q)

----------------------------------------------------------------------------
(* State *)

VARIABLES
    analysisFault,      \* a call in the try block of _analyze_query raises
    stepConflict,       \* what the graph executor of this build does when two nodes
                        \* of one step write the same state key: "raise" or "last_write"
    workflow_instance,  \* langgraph_workflow._workflow_instance: "None" or "ready"
    session_contexts,   \* ContextEngineering.session_contexts
    user_profiles,      \* ContextEngineering.user_profiles
    pattern_cache,      \* ContextEngineering.pattern_cache: the queries learned
    request,            \* the request or event being served, and by which handler
    call,               \* the arguments process_analytics_query was called with
    st,                 \* the AnalyticsState of the run
    active,             \* the nodes scheduled for the current step of the run
    writes,             \* the states returned by the nodes of the current step
    trace,              \* the nodes executed in the run, in order
    engineResult,       \* what AnalyticsEngine.analyze_query returned in the run
    runStatus,          \* "idle", "running", "ended" (invoke returned), "raised"
    response,           \* what the handler returned or wrote
    numRequests         \* requests served so far

wfVars == <<analysisFault, stepConflict, workflow_instance, session_contexts, user_profiles,
            pattern_cache, request, call, st, active, writes, trace,
            engineResult, runStatus, response, numRequests>>

\* ConversationMemory
VARIABLES
    conversation_table, \* the items of the DynamoDB table
    redis_lists,        \* the Redis list conversation:<session_id> of each session
    redis_ok,           \* whether Redis answers a ping (is_redis_available)
    now,                \* the clock, in seconds
    storedLog,          \* per session, the conversations store_conversation reported
                        \* stored, oldest first
    memReturn,          \* the last call of ConversationMemory and what it returned
    numStores           \* store_conversation calls so far

cmVars == <<conversation_table, redis_lists, redis_ok, now, storedLog, memReturn, numStores>>

\* AgentCoreGateway
VARIABLES
    gateway,          \* the AgentCoreGateway instance: built, bedrock_client, gateway_info
    gwPc,             \* where the running gateway operation is
    gwCall,           \* the operation and its arguments
    gwInvokes,        \* invoke_gateway calls made by the running operation
    gwFallbacks,      \* fallback calls made by the running operation
    gwInvokeOutcome,  \* how the gateway attempt of the running operation ended
    gwResult          \* what the operation returned

gwVars == <<gateway, gwPc, gwCall, gwInvokes, gwFallbacks, gwInvokeOutcome, gwResult>>

\* AgentCoreMemoryIntegration
VARIABLES
    agentcore_memory,  \* the instance: built, bedrock_agent_client, memory_ids
    agent_memory,      \* what put_memory has stored in AgentCore Memory
    amReturn           \* the last store operation and what it returned

amVars == <<agentcore_memory, agent_memory, amReturn>>

\* DatabaseIntegration and its module-level accessor
VARIABLES
    db_integration,    \* the module global _db_integration
    db_local,          \* an instance a caller built itself with DatabaseIntegration()
    dbObjects,         \* how many DatabaseIntegration objects have been constructed
    dbHandles,         \* the instances get_database_integration has returned so far
    dbReturn           \* the last call and what it returned

dbVars == <<db_integration, db_local, dbObjects, dbHandles, dbReturn>>

vars == <<wfVars, cmVars, gwVars, amVars, dbVars>>

\* what outlives a request inside the process
persistent == <<session_contexts, user_profiles, pattern_cache>>

----------------------------------------------------------------------------
(* langgraph_workflow.py: the graph *)

END == "__end__"

Chain == <<"query_analyzer", "context_retriever", "task_decomposer", "mcp_enhancer",
           "data_processor", "result_synthesizer", "memory_updater">>

Nodes == {Chain[i] : i \in 1..Len(Chain)} \cup {"error_handler"}

EntryPoint == "query_analyzer"

\* a graph whose first edge leads past context_retriever
EdgesSkipContext ==
    { <<"query_analyzer", "task_decomposer">>,
      <<"context_retriever", "task_decomposer">>,
      <<"task_decomposer", "mcp_enhancer">>,
      <<"mcp_enhancer", "data_processor">>,
      <<"data_processor", "result_synthesizer">>,
      <<"result_synthesizer", "memory_updater">>,
      <<"memory_updater", END>>,
      <<"error_handler", END>> }

\* the add_edge calls of _create_workflow
Edges ==
    { <<"query_analyzer", "context_retriever">>,
      <<"context_retriever", "task_decomposer">>,
      <<"task_decomposer", "mcp_enhancer">>,
      <<"mcp_enhancer", "data_processor">>,
      <<"data_processor", "result_synthesizer">>,
      <<"result_synthesizer", "memory_updater">>,
      <<"memory_updater", END>>,
      <<"error_handler", END>> }

\* _should_handle_error
ShouldHandleError(state) == IF Truthy(state.error) THEN "error" ELSE "continue"

\* the add_conditional_edges call of _create_workflow
ConditionalTarget(n, state) ==
    IF n = "data_processor"
    THEN {IF ShouldHandleError(state) = "error" THEN "error_handler" ELSE "result_synthesizer"}
    ELSE {}

\* the nodes a finished node triggers: its edges and its conditional edge
Targets(n, state) ==
    ({e[2] : e \in {x \in Edges : x[1] = n}} \cup ConditionalTarget(n, state)) \ {END}

----------------------------------------------------------------------------
(* langgraph_workflow.py: the nodes.  Each operator is the state a node    *)
(* returns for the state it is given.                                      *)

\* process_query: the initial AnalyticsState
InitialState(query, session_id, user_id) ==
    [query |-> query, session_id |-> session_id, user_id |-> user_id,
     intent |-> "empty", tasks |-> {}, completed_tasks |-> {},
     results |-> "empty", context |-> "empty", recommendations |-> "none",
     error |-> NoneVal]

\* the intents that carry the key 'type': only that of
\* AnalyticsEngine._parse_query_intent does
IntentHasType(intent) == intent = "basic"

\* memory.get_conversation_history and analyze_query_context both catch
\* every exception themselves, so the try block of _analyze_query completes
\* unless a fault makes one of its calls raise
AdvancedAnalysisRaises(state) == analysisFault

\* the except branch of _analyze_query calls _parse_query_intent, which
\* lower-cases the query: on a query that is no string the node itself raises
NodeRaises(n, state) ==
    n = "query_analyzer" /\ AdvancedAnalysisRaises(state) /\ ~IsStr(state.query)

\* _analyze_query
AnalyzeQuery(state) ==
    IF AdvancedAnalysisRaises(state)
    THEN [state EXCEPT !.intent = "basic",
                       !.error = "Advanced analysis failed, using fallback"]
    ELSE [state EXCEPT !.intent = IF ContextAnalysisFallsBack(state.query)
                                  THEN "fallback_context" ELSE "advanced",
                       !.context = "analysis"]

\* _retrieve_context
RetrieveContext(state) == [state EXCEPT !.context = "enhanced"]

\* _decompose_tasks: intent['type'] raises KeyError when the intent has no 'type'
DecomposeTasks(state) ==
    IF IntentHasType(state.intent)
    THEN [state EXCEPT !.tasks = {"primary_analysis"}, !.completed_tasks = {}]
    ELSE [state EXCEPT !.error = "Task decomposition failed: 'type'"]

\* _enhance_with_mcp: 'analyze' is one of the terms that add recommendations;
\* query.lower() of a query that is no string raises and only mcp_error is set
EnhanceWithMcp(state) ==
    IF state.query = Q1 THEN [state EXCEPT !.recommendations = "mcp"] ELSE state

\* _process_data
ProcessData(state, engineOK) ==
    IF engineOK
    THEN [state EXCEPT !.results = "engine", !.completed_tasks = {"primary_analysis"}]
    ELSE [state EXCEPT !.error = "Data processing failed"]

\* _synthesize_results
SynthesizeResults(state) == [state EXCEPT !.recommendations = "synthesized"]

\* _handle_error
HandleError(state) ==
    [state EXCEPT !.results = "error_handler", !.recommendations = "error_handler"]

\* ConversationMemory.store_conversation takes session_id, query, response and
\* user_id; _update_memory passes these and five more keywords
StoreConversationParams == {"session_id", "query", "response", "user_id"}

UpdateMemoryKeywords ==
    {"session_id", "user_id", "query", "response", "intent", "recommendations",
     "context_analysis", "synthesis_metadata", "timestamp"}

\* the call of store_conversation in _update_memory raises TypeError
StoreCallRaises == ~(UpdateMemoryKeywords \subseteq StoreConversationParams)

\* a memory_updater that records its failure in the state
UpdateMemoryRecordsError(state) == [state EXCEPT !.error = "Memory update failed"]

\* _update_memory returns the state as it got it; learn_from_interaction is
\* reached only when the calls before it do not raise
UpdateMemory(state) == state

LearnsPattern(state) ==
    /\ Truthy(state.session_id)
    /\ ~StoreCallRaises
    /\ state.results = "engine"

\* AnalyticsEngine.analyze_query fails on a query that is no string
\* (_parse_query_intent lower-cases it) and may fail while analysing
EngineOutcomes(query) == IF IsStr(query) THEN BOOLEAN ELSE {FALSE}

NodeOutput(n, state, engineOK) ==
    CASE n = "query_analyzer" -> AnalyzeQuery(state)
      [] n = "context_retriever" -> RetrieveContext(state)
      [] n = "task_decomposer" -> DecomposeTasks(state)
      [] n = "mcp_enhancer" -> EnhanceWithMcp(state)
      [] n = "data_processor" -> ProcessData(state, engineOK)
      [] n = "result_synthesizer" -> SynthesizeResults(state)
      [] n = "memory_updater" -> UpdateMemory(state)
      [] n = "error_handler" -> HandleError(state)

----------------------------------------------------------------------------
(* Requests, responses and the text process_analytics_query builds *)

NoRequest ==
    [handler |-> "none", kind |-> "none", text |-> "", d |-> EmptyDict,
     session_id |-> NoneVal, user_id |-> NoneVal]

NoCall == [query |-> NoneVal, session_id |-> NoneVal, user_id |-> NoneVal]

NoResponse == [kind |-> "none", status |-> "", head |-> "", detail |-> ""]

\* a returned or written string: its opening words and what it quotes
Text(status, head, detail) ==
    [kind |-> "str", status |-> status, head |-> head, detail |-> detail]

\* an exception that leaves the handler
Raised(detail) == [kind |-> "raise", status |-> "", head |-> "", detail |-> detail]

\* process_query: the dict it returns, from the final state or from the
\* exception invoke raised
ProcessQueryResult(status, state) ==
    IF status = "raised"
    THEN [success |-> FALSE, results |-> "empty", error |-> "Workflow execution failed"]
    ELSE [success |-> ~Truthy(state.error), results |-> state.results,
          error |-> state.error]

\* process_analytics_query (main.py): the text for a result of process_query
FormatResult(result) ==
    IF result.success
    THEN [head |-> "# Analytics Results", detail |-> result.results]
    ELSE [head |-> "Error analyzing query", detail |-> result.error]

\* process_analytics_query (main.py): the except branch
ProcessingError == [head |-> "Error processing request", detail |-> "exception"]

\* process_analytics_query (server.py, app.py)
EchoResponse(user_input) ==
    [head |-> "Analytics Agent Response", detail |-> Str(user_input)]

\* the requests do_GET serves: /health, or a query string whose parameters
\* parse_qs keeps (those with a non-blank value)
GetRequests ==
    { [handler |-> "http_get", kind |-> "health", text |-> "", d |-> EmptyDict,
       session_id |-> NoneVal, user_id |-> NoneVal] } \cup
    { [handler |-> "http_get", kind |-> "params", text |-> "", d |-> d,
       session_id |-> s, user_id |-> u] :
        d \in DictsOver({Q1, Q2}), s \in Sessions \cup {NoneVal}, u \in Users \cup {NoneVal} }

\* the bodies do_POST serves: a JSON object, JSON that is no object, or text
\* that is no JSON
PostRequests ==
    { [handler |-> "http_post", kind |-> "json_dict", text |-> "", d |-> d,
       session_id |-> s, user_id |-> u] :
        d \in DictsOver(Vals), s \in Sessions \cup {NoneVal}, u \in Users \cup {NoneVal} } \cup
    { [handler |-> "http_post", kind |-> "json_other", text |-> "", d |-> EmptyDict,
       session_id |-> NoneVal, user_id |-> NoneVal] } \cup
    { [handler |-> "http_post", kind |-> "text", text |-> t, d |-> EmptyDict,
       session_id |-> NoneVal, user_id |-> NoneVal] : t \in {"", Q2} }

\* the event is dead once the handler has extracted its input: what is kept of
\* a request being processed is the handler that has to answer it
Served(req) == [req EXCEPT !.text = "", !.d = EmptyDict]

LambdaRequest(h, event) ==
    [handler |-> h, kind |-> event.kind, text |-> event.text, d |-> event.d,
     session_id |-> NoneVal, user_id |-> NoneVal]

\* a do_GET that reads the keys do_POST reads
GetCallAnyKey(req) ==
    [query |-> ExtractUserInput(req.d),
     session_id |-> req.session_id, user_id |-> req.user_id]

\* do_GET: the arguments it passes to process_analytics_query
GetCall(req) ==
    [query |-> Get(req.d, "query", "Hello World"),
     session_id |-> req.session_id, user_id |-> req.user_id]

\* do_POST: the arguments it passes to process_analytics_query
PostCall(req) ==
    IF req.kind = "json_dict"
    THEN [query |-> ExtractUserInput(req.d),
          session_id |-> req.session_id, user_id |-> req.user_id]
    ELSE [query |-> Or(req.text, "Hello World"),
          session_id |-> NoneVal, user_id |-> NoneVal]

\* a lambda_handler that processes its events in one session
MainLambdaCallInSession(event) ==
    [query |-> LambdaUserInput(event), session_id |-> "s1", user_id |-> NoneVal]

\* lambda_handler (main.py): process_analytics_query(user_input), the session
\* and the user left at their default None
MainLambdaCall(event) ==
    [query |-> LambdaUserInput(event), session_id |-> NoneVal, user_id |-> NoneVal]

----------------------------------------------------------------------------
(* The entry points *)

IsHttp(handler) == handler \in {"http_get", "http_post"}

\* a handler that lets the exception of process_analytics_query through
DeliverUncaught(h, t) ==
    IF t = ProcessingError THEN Raised(t.detail)
    ELSE Text(IF IsHttp(h) THEN "200" ELSE "", t.head, t.detail)

\* what the handler hands back for a text: do_GET and do_POST write it with
\* status 200, lambda_handler returns it
Deliver(h, t) ==
    Text(IF IsHttp(h) THEN "200" ELSE "", t.head, t.detail)

WfInit ==
    /\ analysisFault = FALSE
    /\ stepConflict \in {"raise", "last_write"}
    /\ workflow_instance = "None"
    /\ session_contexts = [s \in Sessions |-> NoContext]
    /\ user_profiles = [u \in Users |-> NoContext]
    /\ pattern_cache = {}
    /\ request = NoRequest
    /\ call = NoCall
    /\ st = InitialState(NoneVal, NoneVal, NoneVal)
    /\ active = {}
    /\ writes = {}
    /\ trace = <<>>
    /\ engineResult = "none"
    /\ runStatus = "idle"
    /\ response = NoResponse
    /\ numRequests = 0

\* the process is between two requests and may serve another one
CanServe == runStatus = "idle" /\ numRequests < MaxRequests

\* process_analytics_query (main.py) up to workflow.invoke: get_workflow
\* builds the AnalyticsWorkflow on first use, which may raise (its clients are
\* created there); process_query then starts a run from the initial state
StartProcessing(req, c) ==
    /\ numRequests' = numRequests + 1
    /\ request' = req
    /\ call' = c
    /\ st' = InitialState(c.query, c.session_id, c.user_id)
    /\ writes' = {}
    /\ trace' = <<>>
    /\ engineResult' = "none"
    /\ \E built \in IF workflow_instance = "None" THEN BOOLEAN ELSE {TRUE} :
          IF built
          THEN /\ workflow_instance' = "ready"
               /\ active' = {EntryPoint}
               /\ runStatus' = "running"
               /\ response' = NoResponse
          ELSE /\ workflow_instance' = workflow_instance
               /\ active' = {}
               /\ runStatus' = "answered"
               /\ response' = Deliver(req.handler, ProcessingError)
    /\ UNCHANGED <<stepConflict, analysisFault, session_contexts, user_profiles, pattern_cache>>
    /\ UNCHANGED <<cmVars, gwVars, amVars, dbVars>>

\* lambda_handler (main.py)
LambdaMain ==
    /\ CanServe
    /\ \E event \in Events :
          StartProcessing(LambdaRequest("lambda_main", event), MainLambdaCall(event))

\* a handler that involves no workflow run
Answer(req, resp) ==
    /\ numRequests' = numRequests + 1
    /\ request' = req
    /\ call' = NoCall
    /\ response' = resp
    /\ st' = InitialState(NoneVal, NoneVal, NoneVal)
    /\ active' = {}
    /\ writes' = {}
    /\ trace' = <<>>
    /\ engineResult' = "none"
    /\ runStatus' = "answered"
    /\ UNCHANGED <<stepConflict, analysisFault, workflow_instance, session_contexts, user_profiles,
                   pattern_cache>>
    /\ UNCHANGED <<cmVars, gwVars, amVars, dbVars>>

\* lambda_handler (server.py, app.py): what its try block or its except
\* branch returns; logging the event with json.dumps raises on a key that is
\* no JSON key
EchoHandlerText(event) ==
    IF event.kind = "dict_odd_key" THEN ProcessingError
    ELSE EchoResponse(LambdaUserInput(event))

\* lambda_handler (server.py)
LambdaServer ==
    /\ CanServe
    /\ \E event \in Events :
          Answer(LambdaRequest("lambda_server", event),
                 Deliver("lambda_server", EchoHandlerText(event)))

\* lambda_handler (app.py)
LambdaApp ==
    /\ CanServe
    /\ \E event \in Events :
          Answer(LambdaRequest("lambda_app", event),
                 Deliver("lambda_app", EchoHandlerText(event)))

\* do_GET
DoGet ==
    /\ CanServe
    /\ \E req \in GetRequests :
          IF req.kind = "health"
          THEN Answer(req, Text("200", "OK", ""))
          ELSE StartProcessing(req, GetCall(req))

\* do_POST: data.get on JSON that is no object raises, and the outer except
\* answers 500
DoPost ==
    /\ CanServe
    /\ \E req \in PostRequests :
          IF req.kind = "json_other"
          THEN Answer(req, Text("500", "Error processing request", "exception"))
          ELSE StartProcessing(req, PostCall(req))

\* the effect of a node on the context engine: analyze_query_context in
\* query_analyzer, learn_from_interaction in memory_updater
NodeEffect(n, state) ==
    /\ session_contexts' =
          IF n = "query_analyzer" /\ ~AdvancedAnalysisRaises(state)
             /\ ~ContextAnalysisFallsBack(state.query) /\ Truthy(state.session_id)
          THEN UpdateSessionContext(session_contexts, state.session_id, state.query)
          ELSE session_contexts
    /\ user_profiles' =
          IF n = "query_analyzer" /\ ~AdvancedAnalysisRaises(state)
             /\ ~ContextAnalysisFallsBack(state.query) /\ Truthy(state.user_id)
          THEN UpdateUserContext(user_profiles, state.user_id, state.query)
          ELSE user_profiles
    /\ pattern_cache' =
          IF n = "memory_updater" /\ LearnsPattern(state)
          THEN pattern_cache \cup {state.query}
          ELSE pattern_cache

----------------------------------------------------------------------------
(* conversation_memory.py: ConversationMemory over the DynamoDB            *)
(* conversation table (key: session_id, timestamp) and the Redis lists     *)

\* store_conversation calls one behaviour makes
MaxStores == 3

\* how far the clock advances
MaxClock == 1

\* the limits asked for besides the defaults
MaxLimit == 2

\* get_conversation_history: the default limit
DefaultLimit == 10

\* get_conversation_stats: the limit it asks for
StatsLimit == 100

\* _store_in_redis_cache: ltrim keeps the last 20 conversations
RedisKeep == 20

Limits == (0..MaxLimit) \cup {DefaultLimit, StatsLimit}

Min(a, b) == IF a < b THEN a ELSE b
Max(a, b) == IF a > b THEN a ELSE b

\* Redis LRANGE key start stop: both ends inclusive, a negative index counts
\* from the end of the list
LRange(l, start, stop) ==
    LET n == Len(l)
        s == IF start < 0 THEN Max(n + start, 0) ELSE start
        e == IF stop < 0 THEN n + stop ELSE Min(stop, n - 1)
    IN IF s > e THEN <<>> ELSE SubSeq(l, s + 1, e + 1)

\* DynamoDB put_item: an item with the same key is replaced
PutItem(table, item) ==
    {i \in table : ~(i.session_id = item.session_id /\ i.timestamp = item.timestamp)}
        \cup {item}

\* DynamoDB query with ScanIndexForward=False: the items of the session, the
\* greatest timestamp first
RECURSIVE NewestFirst(_)
NewestFirst(items) ==
    IF items = {} THEN <<>>
    ELSE LET top == CHOOSE i \in items : \A j \in items : j.timestamp <= i.timestamp
         IN <<top>> \o NewestFirst(items \ {top})

Take(l, n) == SubSeq(l, 1, Min(n, Len(l)))

\* _get_from_dynamodb: Limit=0 is refused by the client, the except returns []
GetFromDynamoDB(table, session_id, limit, dynamoOK) ==
    IF ~dynamoOK \/ limit < 1 THEN <<>>
    ELSE LET all == NewestFirst({i \in table : i.session_id = session_id})
         IN [k \in 1..Len(Take(all, limit)) |-> all[k].conv]

\* _get_from_redis_cache: lrange(key, 0, limit - 1)
GetFromRedisCache(lists, session_id, limit, redisReadOK) ==
    IF ~redisReadOK THEN <<>>
    ELSE LET got == LRange(lists[session_id], 0, limit - 1)
         IN [k \in 1..Len(got) |-> got[k].conv]

\* get_conversation_history: Redis first, DynamoDB when Redis is unavailable
\* or has nothing
ConversationHistory(table, lists, redisUp, session_id, limit, dynamoOK, redisReadOK) ==
    LET cached == IF redisUp
                  THEN GetFromRedisCache(lists, session_id, limit, redisReadOK)
                  ELSE <<>>
    IN IF cached # <<>> THEN cached
       ELSE GetFromDynamoDB(table, session_id, limit, dynamoOK)

\* _store_in_redis_cache: lpush, ltrim(0, 19), expire; any of them may raise,
\* which is logged and swallowed
StoreInRedisCache(lists, redisUp, session_id, entry, redisOutcome) ==
    IF ~redisUp \/ redisOutcome = "lpush_raises" THEN lists
    ELSE IF redisOutcome = "ltrim_raises"
    THEN [lists EXCEPT ![session_id] = <<entry>> \o @]
    ELSE [lists EXCEPT ![session_id] = LRange(<<entry>> \o @, 0, RedisKeep - 1)]

\* a store_conversation that returns True whatever put_item did
StoreReturnAlways(dynamoOK) == TRUE

\* store_conversation: True when put_item did not raise
StoreReturn(dynamoOK) == dynamoOK

NoMemReturn ==
    [op |-> "none", session_id |-> NoneVal, limit |-> 0, conv |-> 0, ok |-> FALSE,
     history |-> <<>>, cache |-> "none", failed |-> FALSE]

CmInit ==
    /\ conversation_table = {}
    /\ redis_lists = [s \in Sessions |-> <<>>]
    /\ redis_ok = TRUE
    /\ now = 0
    /\ storedLog = [s \in Sessions |-> <<>>]
    /\ memReturn = NoMemReturn
    /\ numStores = 0

\* store_conversation
StoreConversation ==
    /\ numStores < MaxStores
    /\ \E session_id \in Sessions, dynamoOK \in BOOLEAN,
          redisOutcome \in {"ok", "lpush_raises", "ltrim_raises"} :
        LET conv == numStores + 1
            item == [session_id |-> session_id, timestamp |-> now, conv |-> conv]
            entry == [conv |-> conv, timestamp |-> now]
            ret == StoreReturn(dynamoOK)
        IN /\ numStores' = conv
           /\ conversation_table' = IF dynamoOK THEN PutItem(conversation_table, item)
                                     ELSE conversation_table
           /\ redis_lists' = IF dynamoOK
                              THEN StoreInRedisCache(redis_lists, redis_ok, session_id,
                                                     entry, redisOutcome)
                              ELSE redis_lists
           /\ storedLog' = IF ret THEN [storedLog EXCEPT ![session_id] = Append(@, conv)]
                            ELSE storedLog
           /\ memReturn' = [NoMemReturn EXCEPT
                              !.op = "store_conversation", !.session_id = session_id,
                              !.conv = conv, !.ok = ret,
                              !.cache = IF ~dynamoOK THEN "none"
                                        ELSE IF ~redis_ok THEN "unavailable"
                                        ELSE IF redisOutcome = "ok" THEN "cached"
                                        ELSE "failed",
                              !.failed = ~dynamoOK]
    /\ UNCHANGED <<redis_ok, now>>
    /\ UNCHANGED <<wfVars, gwVars, amVars, dbVars>>

\* get_conversation_history
GetConversationHistory ==
    /\ \E session_id \in Sessions, limit \in Limits, dynamoOK \in BOOLEAN,
          redisReadOK \in BOOLEAN :
        LET got == ConversationHistory(conversation_table, redis_lists, redis_ok,
                                       session_id, limit, dynamoOK, redisReadOK)
            fromRedis == redis_ok /\
                GetFromRedisCache(redis_lists, session_id, limit, redisReadOK) # <<>>
        IN memReturn' = [NoMemReturn EXCEPT
                           !.op = "get_conversation_history", !.session_id = session_id,
                           !.limit = limit, !.history = got, !.ok = TRUE,
                           !.cache = IF fromRedis THEN "redis" ELSE "dynamodb",
                           !.failed = (redis_ok /\ ~redisReadOK) \/
                                      (~fromRedis /\ ~dynamoOK)]
    /\ UNCHANGED <<conversation_table, redis_lists, redis_ok, now, storedLog, numStores>>
    /\ UNCHANGED <<wfVars, gwVars, amVars, dbVars>>

\* a clear_session that leaves the Redis key in place
ClearSessionKeepsCache ==
    /\ \E session_id \in Sessions, deleteOK \in BOOLEAN :
        /\ redis_lists' = redis_lists
        /\ memReturn' = [NoMemReturn EXCEPT
                           !.op = "clear_session", !.session_id = session_id,
                           !.ok = ~redis_ok \/ deleteOK,
                           !.failed = redis_ok /\ ~deleteOK]
    /\ UNCHANGED <<conversation_table, redis_ok, now, storedLog, numStores>>
    /\ UNCHANGED <<wfVars, gwVars, amVars, dbVars>>

\* clear_session: the Redis key is deleted, DynamoDB is left as it is
ClearSession ==
    /\ \E session_id \in Sessions, deleteOK \in BOOLEAN :
        /\ redis_lists' = IF redis_ok /\ deleteOK
                           THEN [redis_lists EXCEPT ![session_id] = <<>>]
                           ELSE redis_lists
        /\ memReturn' = [NoMemReturn EXCEPT
                           !.op = "clear_session", !.session_id = session_id,
                           !.ok = ~redis_ok \/ deleteOK,
                           !.failed = redis_ok /\ ~deleteOK]
    /\ UNCHANGED <<conversation_table, redis_ok, now, storedLog, numStores>>
    /\ UNCHANGED <<wfVars, gwVars, amVars, dbVars>>

\* Redis stops or resumes answering
RedisFlip ==
    /\ redis_ok' = ~redis_ok
    /\ UNCHANGED <<conversation_table, redis_lists, now, storedLog, memReturn, numStores>>
    /\ UNCHANGED <<wfVars, gwVars, amVars, dbVars>>

\* a second passes
Tick ==
    /\ now < MaxClock
    /\ now' = now + 1
    /\ UNCHANGED <<conversation_table, redis_lists, redis_ok, storedLog, memReturn, numStores>>
    /\ UNCHANGED <<wfVars, gwVars, amVars, dbVars>>

CmNext ==
    \/ StoreConversation
    \/ GetConversationHistory
    \/ ClearSession
    \/ RedisFlip
    \/ Tick

----------------------------------------------------------------------------
(* langgraph_workflow.py: the run of the graph                             *)

\* what memory_updater does to the ConversationMemory: store_conversation is
\* reached for a truthy session_id and stores when the call itself does not
\* raise; update_user_preferences writes another table
MemoryEffect(n, state) ==
    IF n = "memory_updater" /\ Truthy(state.session_id) /\ ~StoreCallRaises
    THEN \E dynamoOK \in BOOLEAN, redisOutcome \in {"ok", "lpush_raises", "ltrim_raises"} :
           LET conv == numStores + 1
           IN /\ numStores' = conv
              /\ conversation_table' =
                    IF dynamoOK
                    THEN PutItem(conversation_table,
                                 [session_id |-> state.session_id, timestamp |-> now,
                                  conv |-> conv])
                    ELSE conversation_table
              /\ redis_lists' =
                    IF dynamoOK
                    THEN StoreInRedisCache(redis_lists, redis_ok, state.session_id,
                                           [conv |-> conv, timestamp |-> now], redisOutcome)
                    ELSE redis_lists
              /\ storedLog' = IF StoreReturn(dynamoOK)
                               THEN [storedLog EXCEPT ![state.session_id] = Append(@, conv)]
                               ELSE storedLog
              /\ UNCHANGED <<redis_ok, now, memReturn>>
    ELSE UNCHANGED cmVars

\* one node of the current step runs on the state the step started from; when
\* the step's last node has run, the returned states are written back and the
\* nodes they trigger form the next step.  Every node returns the whole state,
\* so two nodes in one step write every key twice.
RunNode(n) ==
    /\ runStatus = "running"
    /\ n \in active
    /\ \E engineOK \in IF n = "data_processor" THEN EngineOutcomes(st.query) ELSE {TRUE} :
        LET out == NodeOutput(n, st, engineOK)
            done == writes \cup {[node |-> n, out |-> out]}
        IN /\ trace' = Append(trace, n)
           /\ engineResult' = IF n = "data_processor"
                               THEN (IF engineOK THEN "success" ELSE "failure")
                               ELSE engineResult
           /\ NodeEffect(n, st)
           /\ IF NodeRaises(n, st)
              THEN /\ runStatus' = "raised"
                   /\ active' = {}
                   /\ writes' = {}
                   /\ st' = st
              ELSE IF active # {n}
              THEN /\ active' = active \ {n}
                   /\ writes' = done
                   /\ UNCHANGED <<st, runStatus>>
              ELSE /\ writes' = {}
                   /\ IF Cardinality(done) > 1 /\ stepConflict = "raise"
                      THEN /\ runStatus' = "raised"
                           /\ active' = {}
                           /\ st' = st
                      ELSE \E w \in done :
                             LET next == UNION {Targets(x.node, x.out) : x \in done}
                             IN /\ st' = w.out
                                /\ active' = next
                                /\ runStatus' = IF next = {} THEN "ended" ELSE "running"
    /\ request' = Served(request)
    /\ MemoryEffect(n, st)
    /\ UNCHANGED <<stepConflict, analysisFault, workflow_instance, call, response, numRequests>>
    /\ UNCHANGED <<gwVars, amVars, dbVars>>

\* process_query returns, process_analytics_query formats, the handler answers
ReturnResponse ==
    /\ runStatus \in {"ended", "raised"}
    /\ response' = Deliver(request.handler, FormatResult(ProcessQueryResult(runStatus, st)))
    /\ runStatus' = "answered"
    /\ UNCHANGED <<stepConflict, analysisFault, workflow_instance, session_contexts, user_profiles,
                   pattern_cache, request, call, st, active, writes, trace,
                   engineResult, numRequests>>
    /\ UNCHANGED <<cmVars, gwVars, amVars, dbVars>>

\* the handler has returned and its frame is gone: serve_forever and
\* runtime_loop wait for the next request
AwaitRequest ==
    /\ runStatus = "answered"
    /\ runStatus' = "idle"
    /\ request' = NoRequest
    /\ call' = NoCall
    /\ response' = NoResponse
    /\ st' = InitialState(NoneVal, NoneVal, NoneVal)
    /\ active' = {}
    /\ writes' = {}
    /\ trace' = <<>>
    /\ engineResult' = "none"
    /\ UNCHANGED <<stepConflict, analysisFault, workflow_instance, session_contexts, user_profiles,
                   pattern_cache, numRequests>>
    /\ UNCHANGED <<cmVars, gwVars, amVars, dbVars>>

\* a fault outside the program's own code: from now on a call in the try
\* block of _analyze_query raises
InjectAnalysisFault ==
    /\ runStatus = "idle"
    /\ ~analysisFault
    /\ analysisFault' = TRUE
    /\ UNCHANGED <<stepConflict, workflow_instance, session_contexts, user_profiles,
                   pattern_cache, request, call, st, active, writes, trace,
                   engineResult, runStatus, response, numRequests>>
    /\ UNCHANGED <<cmVars, gwVars, amVars, dbVars>>

WfNext ==
    \/ LambdaServer
    \/ LambdaApp
    \/ LambdaMain
    \/ DoGet
    \/ DoPost
    \/ \E n \in Nodes : RunNode(n)
    \/ ReturnResponse
    \/ AwaitRequest

----------------------------------------------------------------------------
(* agentcore_gateway_integration.py: AgentCoreGateway                      *)

NoGateway == [built |-> FALSE, bedrock_client |-> FALSE, gateway_info |-> FALSE]

NoGwCall == [op |-> "none", name |-> "", operation |-> "", serialisable |-> TRUE]

NoGwResult == [returned |-> FALSE]

\* is_available
IsAvailable(g) == g.bedrock_client /\ g.gateway_info

GwCalls ==
    [op : {"execute_rest_call"}, name : {"market-data-api", "unknown-api"},
     operation : {"GET"}, serialisable : BOOLEAN]
    \cup [op : {"execute_database_query"}, name : {"analytics-postgres", "unknown-db"},
          operation : {""}, serialisable : BOOLEAN]
    \cup [op : {"access_s3_data"}, name : {"analytics-data-lake"},
          operation : {"GET", "get", "PUT", "LIST", "DELETE"}, serialisable : {TRUE}]

\* str.upper on the operations used
Upper(operation) == IF operation = "get" THEN "GET" ELSE operation

\* responseData of a successful invoke_gateway, parsed: JSON objects the
\* remote side may send
RemoteDicts ==
    { [returned |-> TRUE, success |-> TRUE, data |-> "rows"],
      [returned |-> TRUE, success |-> FALSE, error |-> "remote error", gateway_used |-> FALSE],
      [returned |-> TRUE] }

\* the parsed answer returned as it came
MarkGatewayUsedKeep(result) == result

\* result['gateway_used'] = True
MarkGatewayUsed(result) ==
    [k \in DOMAIN result \cup {"gateway_used"} |->
        IF k = "gateway_used" THEN TRUE ELSE result[k]]

\* what the environment does to a fallback
FallbackEnvs == {"ok", "http_error", "raises"}

\* _fallback_rest_call
FallbackRestCall(c, env) ==
    IF c.name # "market-data-api"
    THEN [returned |-> TRUE, error |-> "Unknown endpoint", success |-> FALSE,
          gateway_used |-> FALSE]
    ELSE IF env = "raises"
    THEN [returned |-> TRUE, error |-> "request failed", success |-> FALSE,
          gateway_used |-> FALSE]
    ELSE LET status_code == IF env = "ok" THEN 200 ELSE 404
         IN [returned |-> TRUE, status_code |-> status_code, data |-> "body",
             success |-> (status_code < 400), gateway_used |-> FALSE]

\* _fallback_database_query
FallbackDatabaseQuery(c, env) ==
    IF env = "raises"
    THEN [returned |-> TRUE, error |-> "query failed", success |-> FALSE,
          gateway_used |-> FALSE, connection |-> c.name]
    ELSE [returned |-> TRUE, data |-> "rows", success |-> TRUE,
          gateway_used |-> FALSE, connection |-> c.name]

\* _fallback_s3_access
FallbackS3Access(c, env) ==
    IF env # "ok"
    THEN [returned |-> TRUE, error |-> "s3 failed", success |-> FALSE,
          gateway_used |-> FALSE]
    ELSE IF Upper(c.operation) = "GET"
    THEN [returned |-> TRUE, data |-> "body", success |-> TRUE, gateway_used |-> FALSE]
    ELSE IF Upper(c.operation) = "PUT"
    THEN [returned |-> TRUE, success |-> TRUE, gateway_used |-> FALSE]
    ELSE IF Upper(c.operation) = "LIST"
    THEN [returned |-> TRUE, objects |-> "contents", success |-> TRUE,
          gateway_used |-> FALSE]
    ELSE [returned |-> TRUE, error |-> "Unsupported operation", success |-> FALSE,
          gateway_used |-> FALSE]

\* the fallback the except branch and the unavailable branch of each operation call
Fallback(c, env) ==
    IF c.op = "execute_rest_call" THEN FallbackRestCall(c, env)
    ELSE IF c.op = "execute_database_query" THEN FallbackDatabaseQuery(c, env)
    ELSE FallbackS3Access(c, env)

\* an operation that tries the gateway again when the attempt raised
OnGatewayFailureRetry == "try"

\* where an operation goes when its gateway attempt raised: the except branch
\* calls the fallback
OnGatewayFailure == "fallback"

GwInit ==
    /\ gateway = NoGateway
    /\ gwPc = "idle"
    /\ gwCall = NoGwCall
    /\ gwInvokes = 0
    /\ gwFallbacks = 0
    /\ gwInvokeOutcome = "none"
    /\ gwResult = NoGwResult

\* AgentCoreGateway.__init__ and _initialize_gateway
GwConstruct ==
    /\ ~gateway.built
    /\ \E clientOK \in BOOLEAN, describeOK \in BOOLEAN :
        gateway' = [built |-> TRUE, bedrock_client |-> clientOK,
                    gateway_info |-> clientOK /\ describeOK]
    /\ UNCHANGED <<gwPc, gwCall, gwInvokes, gwFallbacks, gwInvokeOutcome, gwResult>>
    /\ UNCHANGED <<wfVars, cmVars, amVars, dbVars>>

\* execute_rest_call, execute_database_query, access_s3_data: the call and
\* the is_available test
GwBegin ==
    /\ gateway.built
    /\ gwPc \in {"idle", "done"}
    /\ \E c \in GwCalls :
        /\ gwCall' = c
        /\ gwPc' = IF IsAvailable(gateway) THEN "try" ELSE "fallback"
    /\ gwInvokes' = 0
    /\ gwFallbacks' = 0
    /\ gwInvokeOutcome' = "none"
    /\ gwResult' = NoGwResult
    /\ UNCHANGED gateway
    /\ UNCHANGED <<wfVars, cmVars, amVars, dbVars>>

\* the try block: json.dumps, invoke_gateway, json.loads, result['gateway_used']
GwTry ==
    /\ gwPc = "try"
    /\ \/ /\ ~gwCall.serialisable
          /\ gwInvokeOutcome' = "dumps_raises"
          /\ gwPc' = OnGatewayFailure
          /\ UNCHANGED <<gwInvokes, gwResult>>
       \/ /\ gwCall.serialisable
          /\ \E outcome \in {"invoke_raises", "bad_json", "not_a_dict"} :
                gwInvokeOutcome' = outcome
          /\ gwInvokes' = gwInvokes + 1
          /\ gwPc' = OnGatewayFailure
          /\ UNCHANGED gwResult
       \/ /\ gwCall.serialisable
          /\ \E d \in RemoteDicts : gwResult' = MarkGatewayUsed(d)
          /\ gwInvokeOutcome' = "ok"
          /\ gwInvokes' = gwInvokes + 1
          /\ gwPc' = "done"
    /\ UNCHANGED <<gateway, gwCall, gwFallbacks>>
    /\ UNCHANGED <<wfVars, cmVars, amVars, dbVars>>

\* the fallback of the operation
GwFallback ==
    /\ gwPc = "fallback"
    /\ \E env \in FallbackEnvs : gwResult' = Fallback(gwCall, env)
    /\ gwFallbacks' = gwFallbacks + 1
    /\ gwPc' = "done"
    /\ UNCHANGED <<gateway, gwCall, gwInvokes, gwInvokeOutcome>>
    /\ UNCHANGED <<wfVars, cmVars, amVars, dbVars>>

GwNext ==
    \/ GwConstruct
    \/ GwBegin
    \/ GwTry
    \/ GwFallback

----------------------------------------------------------------------------
(* agentcore_memory_integration.py: AgentCoreMemoryIntegration             *)

MemoryTypes == {"conversation", "user_preferences", "session_context", "analytics_context"}

NoAgentCoreMemory ==
    [built |-> FALSE, bedrock_agent_client |-> FALSE, memory_ids |-> {},
     fallback_to_traditional |-> TRUE]

NoAmReturn == [op |-> "none", key |-> NoneVal, outcome |-> "none", result |-> [returned |-> FALSE]]

\* is_available of AgentCoreMemoryIntegration
AmIsAvailable(m) == m.bedrock_agent_client /\ m.memory_ids # {}

\* a fallback result without the flag
FallbackStoreNoFlag ==
    [returned |-> TRUE, success |-> TRUE,
     message |-> "Stored using traditional memory system"]

\* _fallback_store_conversation, _fallback_store_user_preferences
FallbackStore ==
    [returned |-> TRUE, success |-> TRUE,
     message |-> "Stored using traditional memory system", fallback |-> TRUE]

\* the return of a store that reached AgentCore Memory
StoredResult(type, what) ==
    [returned |-> TRUE, success |-> TRUE,
     message |-> what \o " stored in AgentCore Memory", memory_id |-> type]

\* the except branch of store_conversation and store_user_preferences
StoreFailed(m, what) ==
    IF m.fallback_to_traditional THEN FallbackStore
    ELSE [returned |-> TRUE, success |-> FALSE, error |-> "error",
          message |-> "Failed to store " \o what]

\* how the try block of a store ends: the memory id is not configured,
\* json.dumps or put_memory raises, or the content is stored
StoreOutcomes(m, type) ==
    IF type \notin m.memory_ids THEN {"not_configured"}
    ELSE {"dumps_raises", "put_raises", "stored"}

\* store_conversation and store_user_preferences
StoreWithFallback(m, type, what, outcome) ==
    IF ~AmIsAvailable(m) THEN FallbackStore
    ELSE IF outcome = "stored" THEN StoredResult(type, what)
    ELSE StoreFailed(m, what)

\* store_session_context
StoreSessionContextResult(m, outcome) ==
    IF ~AmIsAvailable(m)
    THEN [returned |-> TRUE, success |-> FALSE,
          message |-> "AgentCore Memory not available"]
    ELSE IF outcome = "stored" THEN StoredResult("session_context", "Session context")
    ELSE [returned |-> TRUE, success |-> FALSE, error |-> "error",
          message |-> "Failed to store session context"]

AmInit ==
    /\ agentcore_memory = NoAgentCoreMemory
    /\ agent_memory = {}
    /\ amReturn = NoAmReturn

\* AgentCoreMemoryIntegration.__init__ and _load_memory_configuration
AmConstruct ==
    /\ ~agentcore_memory.built
    /\ \E clientOK \in BOOLEAN, configured \in SUBSET MemoryTypes :
        agentcore_memory' = [built |-> TRUE, bedrock_agent_client |-> clientOK,
                             memory_ids |-> configured,
                             fallback_to_traditional |-> TRUE]
    /\ UNCHANGED <<agent_memory, amReturn>>
    /\ UNCHANGED <<wfVars, cmVars, gwVars, dbVars>>

StoreConversationResult(m, outcome) ==
    StoreWithFallback(m, "conversation", "Conversation", outcome)

StoreUserPreferencesResult(m, outcome) ==
    StoreWithFallback(m, "user_preferences", "User preferences", outcome)

\* one store operation on memory type type, keyed by key: put_memory stores
\* the content when the try block gets that far, and result is returned
AmStore(op, type, key, outcome, result) ==
    /\ agentcore_memory.built
    /\ agent_memory' = IF AmIsAvailable(agentcore_memory) /\ outcome = "stored"
                        THEN agent_memory \cup {[type |-> type, key |-> key]}
                        ELSE agent_memory
    /\ amReturn' = [op |-> op, key |-> key,
                    outcome |-> IF ~AmIsAvailable(agentcore_memory)
                                THEN "unavailable" ELSE outcome,
                    result |-> result]
    /\ UNCHANGED agentcore_memory
    /\ UNCHANGED <<wfVars, cmVars, gwVars, dbVars>>

\* store_conversation of AgentCoreMemoryIntegration
AmStoreConversation ==
    \E session_id \in Sessions, outcome \in StoreOutcomes(agentcore_memory, "conversation") :
        AmStore("store_conversation", "conversation", session_id, outcome,
                StoreConversationResult(agentcore_memory, outcome))

\* store_user_preferences
AmStoreUserPreferences ==
    \E user_id \in Users, outcome \in StoreOutcomes(agentcore_memory, "user_preferences") :
        AmStore("store_user_preferences", "user_preferences", user_id, outcome,
                StoreUserPreferencesResult(agentcore_memory, outcome))

\* store_session_context
AmStoreSessionContext ==
    \E session_id \in Sessions, outcome \in StoreOutcomes(agentcore_memory, "session_context") :
        AmStore("store_session_context", "session_context", session_id, outcome,
                StoreSessionContextResult(agentcore_memory, outcome))

\* how the try block of get_conversation_history ends: the memory id is not
\* configured, get_memory raises, or get_memory answers
GetOutcomes(m) ==
    IF "conversation" \notin m.memory_ids THEN {"not_configured"}
    ELSE {"get_raises", "retrieved"}

\* _fallback_get_conversation_history: return []
FallbackGetConversationHistory(session_id) == {}

\* get_conversation_history of AgentCoreMemoryIntegration: the conversations
\* get_memory has for the session, or the fallback's list
AmConversationHistory(m, memory, session_id, outcome) ==
    IF ~AmIsAvailable(m) THEN FallbackGetConversationHistory(session_id)
    ELSE IF outcome = "retrieved"
    THEN { c \in memory : c.type = "conversation" /\ c.key = session_id }
    ELSE IF m.fallback_to_traditional THEN FallbackGetConversationHistory(session_id)
    ELSE {}

AmGetConversationHistory ==
    /\ agentcore_memory.built
    /\ \E session_id \in Sessions, outcome \in GetOutcomes(agentcore_memory) :
        amReturn' = [op |-> "get_conversation_history", key |-> session_id,
                     outcome |-> IF ~AmIsAvailable(agentcore_memory)
                                 THEN "unavailable" ELSE outcome,
                     result |-> [returned |-> TRUE,
                                 history |-> AmConversationHistory(agentcore_memory,
                                                agent_memory, session_id, outcome)]]
    /\ UNCHANGED <<agentcore_memory, agent_memory>>
    /\ UNCHANGED <<wfVars, cmVars, gwVars, dbVars>>

AmNext ==
    \/ AmConstruct
    \/ AmStoreConversation
    \/ AmGetConversationHistory
    \/ AmStoreUserPreferences
    \/ AmStoreSessionContext

----------------------------------------------------------------------------
(* DatabaseIntegration (database_integration.py)                           *)

MaxObjects == 3

\* _db_integration = None
NoDb == [id |-> 0, method |-> "none"]

NoDbReturn == [op |-> "none"]

\* what _initialize_connection leaves behind decides the branch execute_query
\* takes: a psycopg2 pool, else an SQLAlchemy engine, else neither
QueryMethods == {"psycopg2", "sqlalchemy", "simulated"}

\* the SQL texts handed to execute_query: a valid SELECT and the four error
\* cases of _test_error_handling
BadQueries == {"SELCT * FORM invalid_table", "SELECT * FROM non_existent_table", "",
               "SELECT * FROM users WHERE id = 1; DROP TABLE users; --"}

SqlQueries == {"SELECT * FROM sales.transactions"} \cup BadQueries

\* limit: the default 1000, or None as _fallback_database_query passes it
QueryLimits == {"1000", NoneVal}

\* "if 'limit' not in sql_query.lower() and limit": the LIMIT clause is appended
\* to every modelled text when limit is truthy; after "--" it is a comment
AppendsLimit(sql_query, limit) == Truthy(limit)

\* what the PostgreSQL server does with the text it is sent: the misspelt
\* statement, the missing table, the empty text and the bare " LIMIT 1000"
\* raise; the two-statement text runs when the table users exists
ServerOutcomes(sql_query, limited) ==
    IF sql_query \in {"SELCT * FORM invalid_table", "SELECT * FROM non_existent_table", ""}
    THEN {"raises"}
    ELSE {"rows", "raises"}

QueryFailed == [success |-> FALSE, error |-> "error", message |-> "Query execution failed"]

QuerySucceeded(method) == [success |-> TRUE, data |-> "rows", query_method |-> method]

\* _execute_query_real and _execute_query_sqlalchemy inside the try of
\* execute_query: conn is None or the server raises gives the except branch
ExecuteQueryReal(method, sql_query, limit, connOK, server) ==
    IF ~connOK \/ server = "raises" THEN QueryFailed ELSE QuerySucceeded(method)

\* _execute_query_simulated inside the try of execute_query: the text is never
\* parsed; len(df) > limit raises TypeError when limit is None
ExecuteQuerySimulated(sql_query, limit) ==
    IF limit = NoneVal THEN QueryFailed ELSE QuerySucceeded("simulated")

DbInit ==
    /\ db_integration = NoDb
    /\ db_local = NoDb
    /\ dbObjects = 0
    /\ dbHandles = {}
    /\ dbReturn = NoDbReturn

\* DatabaseIntegration(): __init__ does not raise, it leaves the pool and the
\* engine unset when the libraries or the server are missing
NewDatabaseIntegration(n) == { [id |-> n + 1, method |-> m] : m \in QueryMethods }

\* an accessor without the "is None" test
MustConstructAlways(global) == TRUE

\* "if _db_integration is None"
MustConstruct(global) == global = NoDb

\* get_database_integration
GetDatabaseIntegration ==
    /\ \/ /\ MustConstruct(db_integration)
          /\ db_integration' \in NewDatabaseIntegration(dbObjects)
          /\ dbObjects' = dbObjects + 1
       \/ /\ ~MustConstruct(db_integration)
          /\ UNCHANGED <<db_integration, dbObjects>>
    /\ dbHandles' = dbHandles \cup {db_integration'.id}
    /\ dbReturn' = [op |-> "get_database_integration", instance |-> db_integration'.id]
    /\ UNCHANGED db_local
    /\ UNCHANGED <<wfVars, cmVars, gwVars, amVars>>

\* db = DatabaseIntegration(), as the tests and _fallback_database_query do
ConstructDirectly ==
    /\ dbObjects < MaxObjects
    /\ db_local' \in NewDatabaseIntegration(dbObjects)
    /\ dbObjects' = dbObjects + 1
    /\ dbReturn' = [op |-> "DatabaseIntegration", instance |-> db_local'.id]
    /\ UNCHANGED <<db_integration, dbHandles>>
    /\ UNCHANGED <<wfVars, cmVars, gwVars, amVars>>

\* DatabaseIntegration.execute_query on the global or on the caller's instance
ExecuteQuery ==
    /\ \E db \in {db_integration, db_local} \ {NoDb}, sql_query \in SqlQueries,
          limit \in QueryLimits :
        \/ /\ db.method \in {"psycopg2", "sqlalchemy"}
           /\ \E connOK \in BOOLEAN,
                 server \in ServerOutcomes(sql_query, AppendsLimit(sql_query, limit)) :
                dbReturn' = [op |-> "execute_query", instance |-> db.id,
                             sql_query |-> sql_query, limit |-> limit,
                             result |-> ExecuteQueryReal(db.method, sql_query, limit,
                                                         connOK, server)]
        \/ /\ db.method = "simulated"
           /\ dbReturn' = [op |-> "execute_query", instance |-> db.id,
                           sql_query |-> sql_query, limit |-> limit,
                           result |-> ExecuteQuerySimulated(sql_query, limit)]
    /\ UNCHANGED <<db_integration, db_local, dbObjects, dbHandles>>
    /\ UNCHANGED <<wfVars, cmVars, gwVars, amVars>>

DbNext ==
    \/ GetDatabaseIntegration
    \/ ConstructDirectly
    \/ ExecuteQuery

----------------------------------------------------------------------------
(* the whole program                                                       *)

Init == WfInit /\ CmInit /\ GwInit /\ AmInit /\ DbInit

Next ==
    \/ WfNext
    \/ CmNext
    \/ GwNext
    \/ AmNext
    \/ DbNext

Spec == Init /\ [][Next]_vars

\* the handlers and the workflow alone
SpecWorkflow == Init /\ [][WfNext]_vars

\* the handlers and the workflow when the advanced analysis may raise
WfFaultNext == WfNext \/ InjectAnalysisFault

SpecWorkflowFault == Init /\ [][WfFaultNext]_vars

\* ConversationMemory alone
SpecConvMem == Init /\ [][CmNext]_vars

\* AgentCoreGateway alone
SpecGateway == Init /\ [][GwNext]_vars

\* AgentCoreMemoryIntegration alone
SpecMemInt == Init /\ [][AmNext]_vars

\* DatabaseIntegration alone
SpecDatabase == Init /\ [][DbNext]_vars

----------------------------------------------------------------------------
(* Properties of the workflow and of the entry points                      *)

\* the position of node n in the run so far, 0 when it has not run
Position(n) ==
    IF \E i \in 1..Len(trace) : trace[i] = n
    THEN CHOOSE i \in 1..Len(trace) : trace[i] = n
    ELSE 0

\* how often node n has run in the run so far
Runs(n) == Cardinality({i \in 1..Len(trace) : trace[i] = n})

InChain(n) == \E i \in 1..Len(Chain) : Chain[i] = n

RunFinished == runStatus \in {"ended", "raised"}

\* the chain up to data_processor
UpToProcessor == SubSeq(Chain, 1, 5)

C2_EngineSuccessGivesResults ==
    (runStatus = "answered" /\ engineResult = "success")
        => response.head = "# Analytics Results"

LambdaHandlers == {"lambda_server", "lambda_app", "lambda_main"}

\* C3: whatever string or dict event a lambda_handler was called with, what
\* it hands back is a string; no exception leaves it
C3_LambdaReturnsString ==
    (runStatus = "answered" /\ request.handler \in LambdaHandlers)
        => response.kind = "str"

\* lambda_handler of main.py answered although building the workflow failed
C3_Witness ==
    /\ runStatus = "answered"
    /\ request.handler = "lambda_main"
    /\ request.kind = "dict"
    /\ response.kind = "str"
    /\ response.head = "Error processing request"

\* the request has been read and nothing of it has been dropped yet
JustCalled == call # NoCall /\ trace = <<>>

\* the string values a request supplies under the keys the spec names
SuppliedQueryTexts(d) ==
    {d[k] : k \in {k2 \in {"query", "input", "message", "prompt"} :
                      d[k2] # Missing /\ IsStr(d[k2]) /\ Truthy(d[k2])}}

\* C4 as stated: GET / and POST / take the query text from whichever of the
\* keys query, input, message, prompt the request supplies, and pass on the
\* request's session_id and user_id
C4_AnyOfFourKeys ==
    (JustCalled /\ request.kind \in {"params", "json_dict"})
        => /\ SuppliedQueryTexts(request.d) # {}
                => call.query \in SuppliedQueryTexts(request.d)
           /\ call.session_id = request.session_id
           /\ call.user_id = request.user_id

PostKeys == <<"inputText", "input", "query", "message", "prompt", "payload">>

\* the first truthy value among the keys ks of d, None when there is none
RECURSIVE FirstTruthy(_, _)
FirstTruthy(d, ks) ==
    IF ks = <<>> THEN NoneVal
    ELSE IF d[Head(ks)] # Missing /\ Truthy(d[Head(ks)]) THEN d[Head(ks)]
    ELSE FirstTruthy(d, Tail(ks))

\* C4: GET / takes the query text from the parameter query alone; POST / with
\* a JSON object takes the first truthy value of inputText, input, query,
\* message, prompt, payload, then str of body; both fall back to
\* "Hello World" and both pass on the request's session_id and user_id
C4_QueryKeys ==
    /\ (JustCalled /\ request.kind = "params")
          => /\ call.query = IF request.d["query"] # Missing THEN request.d["query"]
                              ELSE "Hello World"
             /\ call.session_id = request.session_id
             /\ call.user_id = request.user_id
    /\ (JustCalled /\ request.kind = "json_dict")
          => /\ call.query =
                   IF FirstTruthy(request.d, PostKeys) # NoneVal
                   THEN FirstTruthy(request.d, PostKeys)
                   ELSE IF request.d["body"] \notin {Missing, ""}
                   THEN Str(request.d["body"])
                   ELSE "Hello World"
             /\ call.session_id = request.session_id
             /\ call.user_id = request.user_id

\* GET /?input=... of a session: the parameter input is not read
C4_Witness ==
    /\ JustCalled
    /\ request.handler = "http_get"
    /\ request.d["input"] = Q1
    /\ request.d["query"] = Missing
    /\ request.session_id = "s1"
    /\ call.query = "Hello World"
    /\ call.session_id = "s1"

\* what a lambda_handler answers, as a function of its event and of what the
\* environment did to the call
LambdaAnswer ==
    IF request'.handler \in {"lambda_server", "lambda_app"}
    THEN Deliver(request'.handler,
                 EchoHandlerText([kind |-> request'.kind, text |-> request'.text,
                                  d |-> request'.d]))
    ELSE IF trace' = <<>> THEN Deliver("lambda_main", ProcessingError)
    ELSE IF stepConflict = "raise"
    THEN Text("", "Error analyzing query", "Workflow execution failed")
    ELSE IF engineResult' = "failure"
    THEN Text("", "Error analyzing query", "Data processing failed")
    ELSE Text("", "Error analyzing query", "Task decomposition failed: 'type'")

----------------------------------------------------------------------------
(* Properties of AgentCoreGateway                                          *)

GwReturned == gwPc = "done"

\* C6: every returned dict carries a boolean gateway_used; it is True exactly
\* when the dict is the parsed answer of a successful invoke_gateway call, and
\* every result of a fallback carries False
C6_GatewayUsedFlag ==
    GwReturned =>
        /\ "gateway_used" \in DOMAIN gwResult
        /\ gwResult.gateway_used \in BOOLEAN
        /\ gwResult.gateway_used <=> (gwInvokeOutcome = "ok" /\ gwInvokes = 1)
        /\ gwFallbacks > 0 => ~gwResult.gateway_used

\* the gateway answered with an object that said gateway_used false itself
C6_Witness ==
    /\ GwReturned
    /\ gwInvokeOutcome = "ok"
    /\ "error" \in DOMAIN gwResult
    /\ gwResult.gateway_used

\* C7: within one call invoke_gateway is called at most once; when the
\* gateway attempt fails the fallback of the operation runs exactly once and
\* the call returns its result; after a successful attempt no fallback runs
C7_NoRetry ==
    /\ gwInvokes <= 1
    /\ gwFallbacks <= 1
    /\ (GwReturned /\ gwInvokeOutcome \notin {"ok", "none"}) =>
          /\ gwFallbacks = 1
          /\ \E env \in FallbackEnvs : gwResult = Fallback(gwCall, env)
    /\ (GwReturned /\ gwInvokeOutcome = "ok") => gwFallbacks = 0

\* invoke_gateway raised and the database fallback answered
C7_Witness ==
    /\ GwReturned
    /\ gwCall.op = "execute_database_query"
    /\ gwInvokeOutcome = "invoke_raises"
    /\ gwInvokes = 1
    /\ gwFallbacks = 1
    /\ gwResult.connection = gwCall.name

----------------------------------------------------------------------------
(* Properties of AgentCoreMemoryIntegration                                *)

\* the store did not reach AgentCore Memory
AmNotStored ==
    /\ amReturn.op \notin {"none", "get_conversation_history"}
    /\ amReturn.outcome # "stored"

IsFallbackResult(r) ==
    /\ r.success
    /\ "fallback" \in DOMAIN r
    /\ r.fallback

\* C8 as stated: when AgentCore Memory is unavailable or its call fails, each
\* of the three store operations returns success True and fallback True
C8_EveryStoreFallsBack ==
    AmNotStored => IsFallbackResult(amReturn.result)

\* C8: when AgentCore Memory is unavailable or its call fails,
\* store_conversation and store_user_preferences return success True and
\* fallback True; store_session_context has no fallback and returns success
\* False without the flag
C8_StoreFallback ==
    AmNotStored =>
        IF amReturn.op = "store_session_context"
        THEN /\ ~amReturn.result.success
             /\ "fallback" \notin DOMAIN amReturn.result
        ELSE IsFallbackResult(amReturn.result)

\* put_memory raised in store_conversation and the fallback result came back
C8_Witness ==
    /\ amReturn.op = "store_conversation"
    /\ amReturn.outcome = "put_raises"
    /\ IsFallbackResult(amReturn.result)

----------------------------------------------------------------------------
(* Properties of ConversationMemory                                        *)

StoreReturnedTrue == memReturn.op = "store_conversation" /\ memReturn.ok

InTable(session_id, conv) ==
    \E i \in conversation_table : i.session_id = session_id /\ i.conv = conv

InRedisList(session_id, conv) ==
    \E k \in 1..Len(redis_lists[session_id]) : redis_lists[session_id][k].conv = conv

Reverse(l) == [k \in 1..Len(l) |-> l[Len(l) + 1 - k]]

\* C10 as stated: get_conversation_history(session_id, limit), when no
\* backend fails during the call, returns the min(limit, n) most recently
\* stored conversations of the session, most recent first
C10_MostRecentFirst ==
    (memReturn.op = "get_conversation_history" /\ memReturn.limit >= 1
        /\ ~memReturn.failed)
        => memReturn.history = Take(Reverse(storedLog[memReturn.session_id]), memReturn.limit)

\* the step is a clear_session that returns True
ClearedTrue == ClearSession /\ memReturn'.ok

\* what get_conversation_history(session_id, limit) returns in the state the
\* step leads to, no backend failing during the call
HistoryNext(session_id, limit) ==
    ConversationHistory(conversation_table', redis_lists', redis_ok', session_id,
                        limit, TRUE, TRUE)

----------------------------------------------------------------------------
(* Properties of DatabaseIntegration                                       *)

\* C12: get_database_integration constructs at most one DatabaseIntegration:
\* every call of it has returned one and the same instance, which is the
\* module global, and no later call replaces that instance.
C12_Singleton ==
    /\ Cardinality(dbHandles) <= 1
    /\ dbHandles # {} => dbHandles = {db_integration.id} /\ db_integration # NoDb
    /\ dbReturn.op = "get_database_integration" => dbReturn.instance = db_integration.id

\* the accessor has been called after its first call, with other instances
\* constructed directly in between
C12_Witness ==
    /\ dbReturn.op = "get_database_integration"
    /\ db_local # NoDb
    /\ db_integration.id < db_local.id
    /\ dbHandles = {db_integration.id}

\* C13: execute_query reports failure for invalid SQL syntax, a table that
\* does not exist, an empty query string and a multi-statement injection.
C13_BadQueryFails ==
    (dbReturn.op = "execute_query" /\ dbReturn.sql_query \in BadQueries)
        => ~dbReturn.result.success

----------------------------------------------------------------------------
(* Properties of the gateway's database queries                            *)

\* C14: execute_database_query with a connection name the gateway does not
\* know returns a result whose success is False.
C14_UnknownConnectionFails ==
    (GwReturned /\ gwFallbacks = 1 /\ gwCall.op = "execute_database_query"
        /\ gwCall.name = "unknown-db")
        => ~gwResult.success

----------------------------------------------------------------------------
(* Properties of AgentCoreMemoryIntegration's history                      *)

\* C15: when store_conversation has returned success True for a session, by
\* AgentCore Memory or by the fallback, a get_conversation_history for that
\* session that follows it includes the conversation.
C15_StoredIsRetrieved ==
    [][ (/\ amReturn.op = "store_conversation"
         /\ amReturn.result.success
         /\ AmGetConversationHistory
         /\ amReturn'.key = amReturn.key)
        => \E c \in amReturn'.result.history : c.key = amReturn.key ]_vars

----------------------------------------------------------------------------
(* Properties of the routing after data_processor and of memory_updater    *)

\* C16: in a finished run whose state carried an error after data_processor,
\* error_handler has run and result_synthesizer and memory_updater have not;
\* in a finished run without an error, error_handler has not run.
C16_ErrorRouting ==
    (RunFinished /\ Position("data_processor") > 0) =>
        IF Truthy(st.error)
        THEN /\ Position("error_handler") > 0
             /\ Position("result_synthesizer") = 0
             /\ Position("memory_updater") = 0
        ELSE Position("error_handler") = 0

\* C17: in a finished run in which the advanced analysis of query_analyzer
\* raised and data processing succeeded, the intent is the basic keyword
\* intent, result_synthesizer and memory_updater have run and process_query
\* reports success True.
C17_FallbackRunIsNormal ==
    (RunFinished /\ analysisFault /\ Position("query_analyzer") > 0
        /\ engineResult = "success")
        => /\ st.intent = "basic"
           /\ Position("result_synthesizer") > 0
           /\ Position("memory_updater") > 0
           /\ ProcessQueryResult(runStatus, st).success

\* C18: once memory_updater has run in a run that carries a session_id, the
\* conversation table of ConversationMemory holds a conversation of that
\* session, so that get_conversation_history returns it.
C18_RunIsStored ==
    (Position("memory_updater") > 0 /\ Truthy(st.session_id))
        => /\ \E i \in conversation_table : i.session_id = st.session_id
           /\ ConversationHistory(conversation_table, redis_lists, redis_ok,
                                  st.session_id, DefaultLimit, TRUE, TRUE) # <<>>

\* the step runs memory_updater, whose call of store_conversation raises
MemoryUpdateFails ==
    /\ trace' = Append(trace, "memory_updater")
    /\ Truthy(st.session_id)
    /\ StoreCallRaises

\* C19: a step in which the memory update of memory_updater fails leaves
\* results, recommendations and error of the state as they were, does not
\* raise out of the run, and process_query reports the success value the
\* state had before the step.
C19_MemoryFailureHarmless ==
    [][ MemoryUpdateFails =>
          /\ st'.results = st.results
          /\ st'.recommendations = st.recommendations
          /\ st'.error = st.error
          /\ runStatus' = "ended"
          /\ ProcessQueryResult(runStatus', st').success
                = ProcessQueryResult("ended", st).success ]_vars

\* memory_updater has run for a session, its store failed and the run ended
C19_Witness ==
    /\ runStatus = "ended"
    /\ Position("memory_updater") = Len(trace)
    /\ Truthy(st.session_id)
    /\ StoreCallRaises
    /\ conversation_table = {}

----------------------------------------------------------------------------
(* Properties of the bookkeeping of ContextEngineering                     *)

\* query_count is the length of the intents list and of the domains list
CountsAgree(c) == c.query_count = Len(c.intents) /\ c.query_count = Len(c.domains)

\* the step is query_analyzer's call of analyze_query_context and the call
\* completes without falling back
AnalysisCompletes ==
    /\ trace' = Append(trace, "query_analyzer")
    /\ ~AdvancedAnalysisRaises(st)
    /\ ~ContextAnalysisFallsBack(st.query)

\* C20: after every step, each session's and each user's query_count equals
\* the length of its intents list and of its domains list; a call of
\* analyze_query_context that completes without falling back adds exactly 1
\* to the query_count of the session and of the user it is made for, and no
\* other step changes a query_count.
C20_Bookkeeping ==
    [][ /\ \A s \in Sessions : CountsAgree(session_contexts'[s])
        /\ \A u \in Users : CountsAgree(user_profiles'[u])
        /\ \A s \in Sessions :
              session_contexts'[s].query_count =
                 session_contexts[s].query_count
                    + (IF AnalysisCompletes /\ st.session_id = s THEN 1 ELSE 0)
        /\ \A u \in Users :
              user_profiles'[u].query_count =
                 user_profiles[u].query_count
                    + (IF AnalysisCompletes /\ st.user_id = u THEN 1 ELSE 0) ]_vars

\* two calls have been made for one session, the second also for a user
C20_Witness ==
    /\ \E s \in Sessions : session_contexts[s].query_count = 2
                              /\ Len(session_contexts[s].domains) = 2
    /\ \E u \in Users : user_profiles[u].query_count = 1
    /\ Position("query_analyzer") > 0

====
